---- MODULE Spec2Model ----
(***************************************************************************)
(* Passage pool rotation and progress persistence of the English Reading  *)
(* Adventure application (main.py: JSON pool with background generation;  *)
(* app.py: CSV session).                                                   *)
(*                                                                         *)
(* Python lists are 0-indexed, TLA+ sequences 1-indexed: the stored        *)
(* current_index keeps the Python value, and passages[i] of the code is    *)
(* passages[i + 1] here.                                                   *)
(***************************************************************************)
EXTENDS Integers, Sequences, FiniteSets, TLC

\* main.py:59
MAX_PASSAGES == 5

\* Number of add_or_replace_passage calls explored (datetime.now() is modelled
\* as a logical clock that ticks once per insertion).
MaxClock == 8

\* The content the generation service may return: a passage text and its
\* vocabulary words in dict order (definitions play no part in main.py).
Drafts ==
    { [passage |-> "p1", vocabulary |-> <<"cat">>],
      [passage |-> "p2", vocabulary |-> <<"cat", "dog">>] }

\* passage_data as generate_passage_background hands it to the pool.
Complete(d) == d @@ [status |-> "complete"]

\* Background threads a server process is followed through.
MaxThreads == 2

\* Passage requests that yield a unit, over all sessions.
MaxCompleted == 2

Threads == 1..MaxThreads

VARIABLES
    script,         \* what runs: "pool" (main.py's pool functions alone), "main" (main.py), "app" (app.py)
    passages_file,  \* data/passages.json: [exists, passages, current_index]
    torn,           \* passages.json is opened for writing and not yet written
    now,            \* logical clock behind datetime.now()
    served,         \* values returned by get_next_passage (pool functions alone: since the last insertion)
    progress_file,  \* data/user_progress.json: [exists, points, passages_completed, vocab_learned]
    points,                    \* st.session_state.points
    passages_completed,        \* st.session_state.passages_completed
    vocab_learned,             \* st.session_state.vocab_learned
    generating_in_background,  \* st.session_state.generating_in_background
    shown,          \* the unit in st.session_state (passage, vocab_dict, ...), or None
    message,        \* what the last passage request told the user
    fg,             \* the script run handling a passage request: [pc, snap]
    bg,             \* the background threads: [pc, snap, unit, t] each
    passages_csv,   \* data/passages.csv: [exists, rows]
    progress_csv,   \* data/user_progress.csv: [exists, rows]
    available_passages,     \* st.session_state.available_passages (app.py)
    current_passage_index,  \* st.session_state.current_passage_index (app.py)
    loaded          \* what the last load call of a store function returned

poolVars == <<passages_file, torn, now, served>>

sessionVars == <<progress_file, points, passages_completed, vocab_learned,
                 generating_in_background, shown, message>>

appVars == <<passages_csv, progress_csv, available_passages,
             current_passage_index>>

mainVars == <<passages_file, torn, served, progress_file,
              generating_in_background, fg, bg>>

vars == <<script, passages_file, torn, now, served, progress_file, points,
          passages_completed, vocab_learned, generating_in_background, shown,
          message, fg, bg, passages_csv, progress_csv, available_passages,
          current_passage_index, loaded>>

\* The value get_next_passage returns for an empty pool (None, 0).
None == [none |-> TRUE]

----------------------------------------------------------------------------
\* JSON store (main.py:66-84)

\* As load_passages_data, with 1 for the cursor of an absent file.
load_passages_data_one(file) ==
    IF file.exists
    THEN [passages |-> file.passages, current_index |-> file.current_index]
    ELSE [passages |-> <<>>, current_index |-> 1]

load_passages_data(file) ==
    IF file.exists
    THEN [passages |-> file.passages, current_index |-> file.current_index]
    ELSE [passages |-> <<>>, current_index |-> 0]

\* last_updated and total_passages are written but never read back.
save_passages_data(passages, current_index) ==
    [exists |-> TRUE, passages |-> passages, current_index |-> current_index]

----------------------------------------------------------------------------
\* Rotation (main.py:86-100)

next_index_stay(current_index, n) == current_index

next_index(current_index, n) == (current_index + 1) % n

\* As get_next_passage, but saving the pool on every path.
get_next_passage_touch(file) ==
    LET data == load_passages_data(file)
        passages == data.passages
        current_index == data.current_index
    IN  IF passages = <<>>
        THEN [file |-> save_passages_data(passages, current_index),
              passage |-> None, index |-> 0]
        ELSE [file |-> save_passages_data(passages,
                            next_index(current_index, Len(passages))),
              passage |-> passages[current_index + 1],
              index |-> current_index]

get_next_passage(file) ==
    LET data == load_passages_data(file)
        passages == data.passages
        current_index == data.current_index
    IN  IF passages = <<>>
        THEN [file |-> file, passage |-> None, index |-> 0]
        ELSE [file |-> save_passages_data(passages,
                            next_index(current_index, Len(passages))),
              passage |-> passages[current_index + 1],
              index |-> current_index]

----------------------------------------------------------------------------
\* Insertion (main.py:102-119)

new_id_len(passages) == Len(passages)

new_id(passages) ==
    IF Len(passages) < MAX_PASSAGES
    THEN Len(passages) + 1
    ELSE passages[1].id + MAX_PASSAGES

replace_index_cursor(current_index, n) == current_index

replace_index(current_index, n) == (current_index + n - 1) % n

place_grow(passages, current_index, unit) == Append(passages, unit)

place(passages, current_index, unit) ==
    IF Len(passages) < MAX_PASSAGES
    THEN Append(passages, unit)
    ELSE [passages EXCEPT
            ![replace_index(current_index, Len(passages)) + 1] = unit]

saved_cursor_reset(current_index) == 0

saved_cursor(current_index) == current_index

add_or_replace_passage(file, new_passage_data, t) ==
    LET data == load_passages_data(file)
        passages == data.passages
        current_index == data.current_index
        unit == new_passage_data @@
                    [created_at |-> t, id |-> new_id(passages)]
    IN  [file |-> save_passages_data(place(passages, current_index, unit),
                                     saved_cursor(current_index)),
         id |-> unit.id]

----------------------------------------------------------------------------
\* The pool's two operations, called in any order on an initially absent file.

NoFile == [exists |-> FALSE, passages |-> <<>>, current_index |-> 0]

NoProgress ==
    [exists |-> FALSE, points |-> 0, passages_completed |-> 0,
     vocab_learned |-> <<>>]

NoCsv == [exists |-> FALSE, rows |-> <<>>]

Idle == [pc |-> "idle", snap |-> NoFile]

NoThread == [pc |-> "none", snap |-> NoFile, unit |-> None, t |-> 0]

\* A session before its first script run, with no progress file.
FreshSession ==
    /\ progress_file = NoProgress
    /\ points = 0
    /\ passages_completed = 0
    /\ vocab_learned = <<>>
    /\ generating_in_background = FALSE
    /\ shown = None
    /\ message = "none"
    /\ fg = Idle
    /\ bg = [t \in Threads |-> NoThread]
    /\ passages_csv = NoCsv
    /\ progress_csv = NoCsv
    /\ available_passages = <<>>
    /\ current_passage_index = 0
    /\ loaded = None

Init ==
    /\ script = "pool"
    /\ passages_file = NoFile
    /\ torn = FALSE
    /\ now = 0
    /\ served = <<>>
    /\ FreshSession

\* The last k + 1 return values are kept, k the pool length.
Remember(hist, r, k) ==
    LET h == Append(hist, r)
    IN  IF Len(h) > k + 1 THEN Tail(h) ELSE h

GetNextPassage ==
    LET r == get_next_passage(passages_file)
    IN  /\ script = "pool"
        /\ UNCHANGED <<script, loaded, appVars, sessionVars, fg, bg>>
        /\ passages_file' = r.file
        /\ served' = Remember(served, [passage |-> r.passage, index |-> r.index],
                              Len(passages_file.passages))
        /\ UNCHANGED <<torn, now>>

AddOrReplacePassage ==
    /\ script = "pool"
    /\ UNCHANGED <<script, loaded, appVars, sessionVars, fg, bg>>
    /\ now < MaxClock
    /\ \E d \in Drafts :
          passages_file' =
              add_or_replace_passage(passages_file, Complete(d), now + 1).file
    /\ now' = now + 1
    /\ served' = <<>>
    /\ UNCHANGED torn

Next == GetNextPassage \/ AddOrReplacePassage

Spec == Init /\ [][Next]_vars

----------------------------------------------------------------------------
\* main.py: progress store (main.py:181-198)

load_user_progress(file) ==
    IF file.exists
    THEN [points |-> file.points,
          passages_completed |-> file.passages_completed,
          vocab_learned |-> file.vocab_learned]
    ELSE [points |-> 0, passages_completed |-> 0, vocab_learned |-> <<>>]

save_user_progress(progress_data) == progress_data @@ [exists |-> TRUE]

Range(seq) == {seq[i] : i \in 1..Len(seq)}

\* Vocabulary section of a script run (main.py:464-475): every word of the
\* shown unit that is not in vocab_learned is appended and earns 5 points.
RECURSIVE learn_words(_, _)
learn_words(words, st) ==
    IF words = <<>>
    THEN st
    ELSE learn_words(Tail(words),
            IF Head(words) \in Range(st.vocab_learned)
            THEN st
            ELSE [vocab_learned |-> Append(st.vocab_learned, Head(words)),
                  points |-> st.points + 5])

\* Display section of a script run (main.py:440-475) for the unit in the
\* session state, if any.
display(unit, st) ==
    IF unit = None THEN st ELSE learn_words(unit.vocabulary, st)

----------------------------------------------------------------------------
\* main.py: the pool a server may start with.  The passages file is absent,
\* or holds what n insertions of initialize_passages left (main.py:164-178;
\* an insertion whose generation failed is skipped).

InitialDraft(i) ==
    IF i % 2 = 1
    THEN [passage |-> "p1", vocabulary |-> <<"cat">>]
    ELSE [passage |-> "p2", vocabulary |-> <<"cat", "dog">>]

RECURSIVE initialize_passages(_)
initialize_passages(n) ==
    IF n = 0
    THEN NoFile
    ELSE add_or_replace_passage(initialize_passages(n - 1),
                                Complete(InitialDraft(n)), n).file

InitMain ==
    /\ script = "main"
    /\ \E n \in 0..MAX_PASSAGES :
          /\ passages_file = initialize_passages(n)
          /\ now = n
    /\ torn = FALSE
    /\ served = <<>>
    /\ FreshSession

----------------------------------------------------------------------------
\* main.py: script runs of the session (main.py:200-213, 397-475)

\* What open(PASSAGES_FILE, 'w') leaves until json.dump has written the data
\* (main.py:83-84): a file that exists and that json.load cannot parse.
Truncated == [exists |-> TRUE, passages |-> <<>>, current_index |-> 0]

\* A new browser session: the session state is initialised from the progress
\* file; threads of earlier sessions keep running in the server process.  The
\* sidebar of every script run loads the pool (main.py:240), and the run dies
\* there when json.load raises.
NewSession ==
    /\ script = "main"
    /\ fg.pc = "idle"
    /\ LET progress == load_user_progress(progress_file)
       IN  /\ points' = progress.points
           /\ passages_completed' = progress.passages_completed
           /\ vocab_learned' = progress.vocab_learned
    /\ generating_in_background' = FALSE
    /\ shown' = None
    /\ message' = IF torn THEN "load_error" ELSE "none"
    /\ UNCHANGED <<script, loaded, appVars, poolVars, progress_file, fg, bg>>

FreeThreads == {t \in Threads : bg[t].pc = "none"}

\* "Get a New Reading Passage" is clicked: get_next_passage loads the pool
\* (main.py:88).  On an empty pool it returns None, the handler reports that
\* no passages are available (main.py:437-438) and the run ends with the
\* display section.  Requests are followed while MaxCompleted is not reached
\* and a thread is left for the generation the request may start.  While the
\* file is being written by a thread, json.load raises (main.py:71) and the
\* run ends with the exception.
RequestLoad ==
    /\ script = "main"
    /\ fg.pc = "idle"
    /\ passages_completed < MaxCompleted
    /\ generating_in_background \/ FreeThreads # {}
    /\ IF torn
       THEN /\ message' = "load_error"
            /\ UNCHANGED <<passages_file, vocab_learned, points, fg>>
       ELSE LET r == get_next_passage(passages_file)
            IN  IF r.passage = None
                THEN /\ passages_file' = r.file
                     /\ message' = "no_passages"
                     /\ LET st == display(shown,
                                      [vocab_learned |-> vocab_learned,
                                       points |-> points])
                        IN  /\ vocab_learned' = st.vocab_learned
                            /\ points' = st.points
                     /\ UNCHANGED fg
                ELSE /\ fg' = [pc |-> "loaded", snap |-> passages_file]
                     /\ UNCHANGED <<passages_file, message, vocab_learned,
                                    points>>
    /\ UNCHANGED <<script, loaded, appVars, torn, now, served, progress_file,
                   passages_completed, generating_in_background, shown, bg>>

\* save_passages_data, called by get_next_passage (main.py:98), opens the
\* file for writing, which truncates it (main.py:83).
RequestOpen ==
    /\ script = "main"
    /\ fg.pc = "loaded"
    /\ passages_file' = Truncated
    /\ torn' = TRUE
    /\ fg' = [fg EXCEPT !.pc = "opened"]
    /\ UNCHANGED <<script, loaded, appVars, now, served, sessionVars, bg>>

\* json.dump writes the pool get_next_passage loaded, with the advanced
\* index (main.py:97-98, 84), and get_next_passage returns the unit and its
\* index (main.py:100).
RequestSave ==
    /\ script = "main"
    /\ fg.pc = "opened"
    /\ LET r == get_next_passage(fg.snap)
       IN  /\ passages_file' = r.file
           /\ served' = Append(served, [passage |-> r.passage,
                                        index |-> r.index])
    /\ torn' = FALSE
    /\ fg' = [fg EXCEPT !.pc = "saved"]
    /\ UNCHANGED <<script, loaded, appVars, now, sessionVars, bg>>

\* The handler shows the unit, counts it, saves the progress and starts a
\* background generation unless one is flagged (main.py:401-436); the run
\* ends with the display section (main.py:440-475).
RequestFinish ==
    /\ script = "main"
    /\ fg.pc = "saved"
    /\ LET passage_data == get_next_passage(fg.snap).passage
           progress_data == [points |-> points + 10,
                             passages_completed |-> passages_completed + 1,
                             vocab_learned |-> vocab_learned]
           st == display(passage_data, [vocab_learned |-> vocab_learned,
                                        points |-> points + 10])
       IN  /\ shown' = passage_data
           /\ passages_completed' = passages_completed + 1
           /\ progress_file' = save_user_progress(progress_data)
           /\ vocab_learned' = st.vocab_learned
           /\ points' = st.points
    /\ message' = "loaded"
    /\ IF generating_in_background
       THEN UNCHANGED <<generating_in_background, bg>>
       ELSE /\ generating_in_background' = TRUE
            /\ LET t == CHOOSE u \in FreeThreads : \A v \in FreeThreads : u <= v
               IN  bg' = [bg EXCEPT ![t] = [NoThread EXCEPT !.pc = "started"]]
    /\ fg' = Idle
    /\ UNCHANGED <<script, loaded, appVars, poolVars>>

----------------------------------------------------------------------------
\* main.py: background_task (main.py:427-430) running
\* generate_passage_background (main.py:122-162)

\* Insertions that threads past generation will still make.
Pending == Cardinality({t \in Threads : bg[t].pc = "generated"})

\* The except clause (main.py:160-162): the function returns False and the
\* passage_data built so far is dropped with the frame (the thread record
\* keeps it until the thread ends).
Raised(t, passage_data) ==
    /\ bg' = [bg EXCEPT ![t] = [NoThread EXCEPT !.pc = "returned",
                                                !.unit = passage_data]]
    /\ UNCHANGED <<script, loaded, appVars, poolVars, sessionVars, fg>>

\* As status_after, without the last assignment of the status.
status_after_stale(calls) ==
    IF calls = 1 THEN "generating_questions" ELSE "generating_quiz"

\* The status passage_data carries after `calls` of the three generation
\* calls have returned (main.py:133, 139, 154).
status_after(calls) ==
    IF calls = 1 THEN "generating_questions"
    ELSE IF calls = 2 THEN "generating_quiz"
    ELSE "complete"

\* The generation calls of generate_passage_background (main.py:125-154),
\* which touch nothing shared: all three return and passage_data is complete,
\* or the call after `calls` of them raises (main.py:160-162).
BgGenerate(t) ==
    /\ script = "main"
    /\ bg[t].pc = "started"
    /\ \/ /\ now + Pending < MaxClock
          /\ \E d \in Drafts :
                bg' = [bg EXCEPT ![t].pc = "generated",
                                 ![t].unit = d @@ [status |-> status_after(3)]]
          /\ UNCHANGED <<script, loaded, appVars, poolVars, sessionVars, fg>>
       \/ \E calls \in 0..2, d \in Drafts :
             Raised(t, IF calls = 0
                       THEN None
                       ELSE d @@ [status |-> status_after(calls)])

\* add_or_replace_passage loads the pool and stamps the unit
\* (main.py:104-107); json.load raises while the file is being written, and
\* the except clause of generate_passage_background drops the unit.
BgLoad(t) ==
    /\ script = "main"
    /\ bg[t].pc = "generated"
    /\ IF torn
       THEN Raised(t, bg[t].unit)
       ELSE /\ now' = now + 1
            /\ bg' = [bg EXCEPT ![t].pc = "loaded",
                                ![t].snap = passages_file,
                                ![t].t = now + 1]
            /\ UNCHANGED <<script, loaded, appVars, passages_file, torn,
                           served, sessionVars, fg>>

\* save_passages_data, called by add_or_replace_passage (main.py:119), opens
\* the file for writing, which truncates it (main.py:83).
BgOpen(t) ==
    /\ script = "main"
    /\ bg[t].pc = "loaded"
    /\ passages_file' = Truncated
    /\ torn' = TRUE
    /\ bg' = [bg EXCEPT ![t].pc = "opened"]
    /\ UNCHANGED <<script, loaded, appVars, now, served, sessionVars, fg>>

\* json.dump writes the pool add_or_replace_passage loaded, with the unit
\* placed in it (main.py:108-119, 84).
BgSave(t) ==
    /\ script = "main"
    /\ bg[t].pc = "opened"
    /\ passages_file' = add_or_replace_passage(bg[t].snap, bg[t].unit, bg[t].t).file
    /\ torn' = FALSE
    /\ bg' = [bg EXCEPT ![t] = [NoThread EXCEPT !.pc = "returned"]]
    /\ UNCHANGED <<script, loaded, appVars, now, served, sessionVars, fg>>

\* background_task assigns False to st.session_state.generating_in_background
\* (main.py:430).  The thread is a plain threading.Thread (main.py:432-434)
\* to which no script run context is attached: whether the st.session_state
\* it reaches is the session's own is left to Streamlit, so the assignment
\* clears the session's flag or leaves it as it is.
BgFinish(t) ==
    /\ script = "main"
    /\ bg[t].pc = "returned"
    /\ \/ generating_in_background' = FALSE
       \/ UNCHANGED generating_in_background
    /\ bg' = [bg EXCEPT ![t] = NoThread]
    /\ UNCHANGED <<script, loaded, appVars, poolVars, progress_file, points, passages_completed,
                   vocab_learned, shown, message, fg>>

Background ==
    \E t \in Threads :
        \/ BgGenerate(t)
        \/ BgLoad(t)
        \/ BgOpen(t)
        \/ BgSave(t)
        \/ BgFinish(t)

NextMain ==
    \/ NewSession
    \/ RequestLoad
    \/ RequestOpen
    \/ RequestSave
    \/ RequestFinish
    \/ Background

SpecMain == InitMain /\ [][NextMain]_vars

\* A started thread runs to its end: the generation calls return or raise,
\* and the file operations and the final assignment are not held up by
\* anything (there is no lock).
SpecMainFair ==
    SpecMain /\ \A t \in Threads :
        WF_vars(BgGenerate(t) \/ BgLoad(t) \/ BgOpen(t) \/ BgSave(t)
                    \/ BgFinish(t))

----------------------------------------------------------------------------
\* app.py: text.  A Python str is a sequence of one-character strings.

\* sep.join(parts)
RECURSIVE join(_, _)
join(sep, parts) ==
    IF parts = <<>> THEN <<>>
    ELSE IF Len(parts) = 1 THEN parts[1]
    ELSE parts[1] \o sep \o join(sep, Tail(parts))

\* s.split(sep), sep one character: always at least one part.
RECURSIVE split(_, _)
split(s, sep) ==
    IF \A i \in 1..Len(s) : s[i] # sep
    THEN <<s>>
    ELSE LET i == CHOOSE k \in 1..Len(s) :
                      s[k] = sep /\ \A j \in 1..(k - 1) : s[j] # sep
         IN  <<SubSeq(s, 1, i - 1)>> \o split(SubSeq(s, i + 1, Len(s)), sep)

\* s.split(sep, 1) of a string that holds sep.
split_first(s, sep) ==
    LET i == CHOOSE k \in 1..Len(s) :
                 s[k] = sep /\ \A j \in 1..(k - 1) : s[j] # sep
    IN  <<SubSeq(s, 1, i - 1), SubSeq(s, i + 1, Len(s))>>

RECURSIVE lstrip(_)
lstrip(s) == IF s # <<>> /\ Head(s) = " " THEN lstrip(Tail(s)) ELSE s

RECURSIVE rstrip(_)
rstrip(s) ==
    IF s # <<>> /\ s[Len(s)] = " " THEN rstrip(SubSeq(s, 1, Len(s) - 1)) ELSE s

strip(s) == rstrip(lstrip(s))

\* A dict is the sequence of its <<key, value>> items in insertion order;
\* d[key] = value keeps the place of a key already present.
dict_set(d, key, value) ==
    IF \E i \in 1..Len(d) : d[i][1] = key
    THEN LET i == CHOOSE k \in 1..Len(d) : d[k][1] = key
         IN  [d EXCEPT ![i] = <<key, value>>]
    ELSE Append(d, <<key, value>>)

RECURSIVE keys(_)
keys(d) == IF d = <<>> THEN <<>> ELSE <<Head(d)[1]>> \o keys(Tail(d))

----------------------------------------------------------------------------
\* app.py: passages CSV (app.py:29-97).  The csv module writes and reads a
\* field unchanged; the vocabulary and questions fields are flattened by the
\* application itself.

RECURSIVE vocab_items(_)
vocab_items(vocab_dict) ==
    IF vocab_dict = <<>> THEN <<>>
    ELSE <<Head(vocab_dict)[1] \o <<":">> \o Head(vocab_dict)[2]>>
            \o vocab_items(Tail(vocab_dict))

\* app.py:69
vocab_str(vocab_dict) == join(<<",">>, vocab_items(vocab_dict))

\* app.py:72
questions_str(questions) == join(<<";">>, questions)

\* app.py:40-46
RECURSIVE parse_pairs(_, _)
parse_pairs(vocab_pairs, vocab_dict) ==
    IF vocab_pairs = <<>> THEN vocab_dict
    ELSE LET pair == Head(vocab_pairs)
         IN  parse_pairs(Tail(vocab_pairs),
                IF \E i \in 1..Len(pair) : pair[i] = ":"
                THEN LET wd == split_first(pair, ":")
                     IN  dict_set(vocab_dict, strip(wd[1]), strip(wd[2]))
                ELSE vocab_dict)

parse_vocabulary(field) ==
    IF field = <<>> THEN <<>> ELSE parse_pairs(split(field, ","), <<>>)

\* app.py:49-51
RECURSIVE strip_nonblank(_)
strip_nonblank(parts) ==
    IF parts = <<>> THEN <<>>
    ELSE (IF strip(Head(parts)) # <<>> THEN <<strip(Head(parts))>> ELSE <<>>)
            \o strip_nonblank(Tail(parts))

parse_questions(field) ==
    IF field = <<>> THEN <<>> ELSE strip_nonblank(split(field, ";"))

RECURSIVE parse_rows(_)
parse_rows(rows) ==
    IF rows = <<>> THEN <<>>
    ELSE <<[passage |-> Head(rows).passage,
            vocabulary |-> parse_vocabulary(Head(rows).vocabulary),
            questions |-> parse_questions(Head(rows).questions),
            created_at |-> Head(rows).created_at]>> \o parse_rows(Tail(rows))

load_passages_from_csv(file) ==
    IF ~file.exists THEN <<>> ELSE parse_rows(file.rows)

\* `io` tells whether the file can be written; the function returns it.
save_passage_to_csv(file, passage, vocab_dict, questions, t, io) ==
    IF io
    THEN [exists |-> TRUE,
          rows |-> Append(file.rows,
                      [passage |-> passage,
                       vocabulary |-> vocab_str(vocab_dict),
                       questions |-> questions_str(questions),
                       created_at |-> t])]
    ELSE file

----------------------------------------------------------------------------
\* app.py: progress CSV (app.py:99-163).  Every save appends a row; a load
\* reads the last one.  last_updated is written but never read back.

\* A row that was cut short after its first field reads back with None in
\* the other columns: int(None) raises, the except clause reports the error
\* and the function goes on to return the defaults (app.py:125-132).
load_user_progress_from_csv(file) ==
    IF /\ file.exists
       /\ file.rows # <<>>
       /\ "passages_completed" \in DOMAIN file.rows[Len(file.rows)]
    THEN LET latest == file.rows[Len(file.rows)]
         IN  [points |-> latest.points,
              passages_completed |-> latest.passages_completed,
              vocab_learned |-> IF latest.vocab_learned = <<>>
                                THEN <<>>
                                ELSE split(latest.vocab_learned, ",")]
    ELSE [points |-> 0, passages_completed |-> 0, vocab_learned |-> <<>>]

save_user_progress_to_csv(file, pts, completed, learned, io) ==
    IF io
    THEN [exists |-> TRUE,
          rows |-> Append(file.rows,
                      [points |-> pts,
                       passages_completed |-> completed,
                       vocab_learned |-> join(<<",">>, learned)])]
    ELSE file

----------------------------------------------------------------------------
\* app.py: script runs (app.py:169-437)

\* Progress rows the "Save Progress" button is followed through.
MaxRows == 2

\* Points up to which awards are followed in app.py.
MaxPoints == 50

\* What generate_passage and generate_questions (app.py:243-256) may return.
AppDrafts ==
    { [passage |-> "p1",
       vocabulary |-> << <<(<<"a">>), (<<"x">>)>> >>,
       questions |-> << <<"q">> >>],
      [passage |-> "p2",
       vocabulary |-> << <<(<<"a", ",", "b">>), (<<"x", ":", "y">>)>>,
                         <<(<<"c">>), (<<"z">>)>> >>,
       questions |-> << <<"q", ";", "r">>, <<"s">> >>] }

\* Vocabulary section (app.py:383-400): a word not in vocab_learned is
\* appended, earns 5 points, and the progress is saved.
RECURSIVE app_learn_words(_, _, _)
app_learn_words(words, st, io) ==
    IF words = <<>>
    THEN st
    ELSE app_learn_words(Tail(words),
            IF Head(words) \in Range(st.vocab_learned)
            THEN st
            ELSE LET learned == Append(st.vocab_learned, Head(words))
                 IN  [vocab_learned |-> learned,
                      points |-> st.points + 5,
                      passages_completed |-> st.passages_completed,
                      file |-> save_user_progress_to_csv(st.file, st.points + 5,
                                  st.passages_completed, learned, io)],
            io)

\* Display section of a script run (app.py:377-400)
app_display(unit, st, io) ==
    IF unit = None THEN st ELSE app_learn_words(keys(unit.vocabulary), st, io)

\* As EndRun, without the new count of completed passages.
EndRun_keep(unit, pts, completed, file, io) ==
    LET st == app_display(unit, [vocab_learned |-> vocab_learned,
                                 points |-> pts,
                                 passages_completed |-> completed,
                                 file |-> file], io)
    IN  /\ shown' = unit
        /\ points' = st.points
        /\ passages_completed' = passages_completed
        /\ vocab_learned' = st.vocab_learned
        /\ progress_csv' = st.file

\* The session state and progress file a script run ends with, from what it
\* had before its display section.
EndRun(unit, pts, completed, file, io) ==
    LET st == app_display(unit, [vocab_learned |-> vocab_learned,
                                 points |-> pts,
                                 passages_completed |-> completed,
                                 file |-> file], io)
    IN  /\ shown' = unit
        /\ points' = st.points
        /\ passages_completed' = completed
        /\ vocab_learned' = st.vocab_learned
        /\ progress_csv' = st.file

InitApp ==
    /\ script = "app"
    /\ passages_file = NoFile
    /\ torn = FALSE
    /\ now = 0
    /\ served = <<>>
    /\ FreshSession

\* A new browser session (app.py:169-184)
AppNewSession ==
    /\ script = "app"
    /\ LET progress == load_user_progress_from_csv(progress_csv)
       IN  /\ points' = progress.points
           /\ passages_completed' = progress.passages_completed
           /\ vocab_learned' = progress.vocab_learned
    /\ available_passages' = load_passages_from_csv(passages_csv)
    /\ current_passage_index' = 0
    /\ shown' = None
    /\ message' = "none"
    /\ UNCHANGED <<script, loaded, mainVars, now, passages_csv, progress_csv>>

\* "Save Progress" (app.py:200-209)
SaveProgress ==
    /\ script = "app"
    /\ Len(progress_csv.rows) < MaxRows
    /\ \E io \in BOOLEAN :
          /\ EndRun(shown, points, passages_completed,
                    save_user_progress_to_csv(progress_csv, points,
                        passages_completed, vocab_learned, io), io)
          /\ message' = IF io THEN "progress_saved" ELSE "progress_not_saved"
    /\ UNCHANGED <<script, loaded, mainVars, now, passages_csv, available_passages,
                   current_passage_index>>

\* "Clear All Data" (app.py:211-212): st.button is True only in the script
\* run its own click starts, so this run enters the outer `if`, draws the
\* "Confirm Clear" button, which is False, and skips the body.
ClearAllData ==
    /\ script = "app"
    /\ \E io \in BOOLEAN :
          EndRun(shown, points, passages_completed, progress_csv, io)
    /\ message' = "confirm_clear"
    /\ UNCHANGED <<script, loaded, mainVars, now, passages_csv,
                   available_passages, current_passage_index>>

\* "Confirm Clear", clicked while it is on the page (app.py:211-226): in the
\* run this click starts "Clear All Data" is False, the outer `if` is not
\* entered, and the body that removes the files and resets the session
\* state (app.py:213-226) is not reached in any run.
ConfirmClear ==
    /\ script = "app"
    /\ message = "confirm_clear"
    /\ \E io \in BOOLEAN :
          EndRun(shown, points, passages_completed, progress_csv, io)
    /\ message' = "nothing"
    /\ UNCHANGED <<script, loaded, mainVars, now, passages_csv,
                   available_passages, current_passage_index>>

app_next_index_plain(current_index, n) == current_index + 1

app_next_index(current_index, n) == (current_index + 1) % n

\* "Use Existing Passage" (app.py:283-306)
UseExistingPassage ==
    /\ script = "app"
    /\ available_passages # <<>>
    /\ points + 10 <= MaxPoints
    /\ \E io \in BOOLEAN :
          IF current_passage_index < Len(available_passages)
          THEN LET passage_data == available_passages[current_passage_index + 1]
               IN  /\ current_passage_index' =
                          app_next_index(current_passage_index,
                                         Len(available_passages))
                   /\ EndRun([passage |-> passage_data.passage,
                              vocabulary |-> passage_data.vocabulary,
                              questions |-> passage_data.questions],
                             points + 10, passages_completed + 1,
                             save_user_progress_to_csv(progress_csv, points + 10,
                                 passages_completed + 1, vocab_learned, io), io)
                   /\ message' = "loaded"
          ELSE /\ EndRun(shown, points, passages_completed, progress_csv, io)
               /\ message' = "no_more"
               /\ UNCHANGED current_passage_index
    /\ UNCHANGED <<script, loaded, mainVars, now, passages_csv, available_passages>>

\* As Generate, going on as if save_passage_to_csv had returned True.
Generate_unchecked(io) ==
    /\ script = "app"
    /\ now + 2 <= MaxClock
    /\ points + 10 <= MaxPoints
    /\ \E d \in AppDrafts :
          /\ passages_csv' = save_passage_to_csv(passages_csv, d.passage,
                                 d.vocabulary, d.questions, now + 1, io)
          /\ available_passages' = Append(available_passages,
                 d @@ [created_at |-> now + 2])
          /\ EndRun(d, points + 10, passages_completed + 1,
                    save_user_progress_to_csv(progress_csv, points + 10,
                        passages_completed + 1, vocab_learned, io), io)
          /\ message' = "generated"
          /\ now' = now + 2
    /\ UNCHANGED <<script, loaded, mainVars, current_passage_index>>

\* "Generate New Passage" and "Get Your First Reading Passage"
\* (app.py:309-341, 344-375): the same handler, the first shown while
\* available_passages is non-empty, the second while it is empty.  A run in
\* which generate_passage raises ends there and changes nothing.
Generate(io) ==
    /\ script = "app"
    /\ now + 2 <= MaxClock
    /\ points + 10 <= MaxPoints
    /\ \E d \in AppDrafts :
          /\ passages_csv' = save_passage_to_csv(passages_csv, d.passage,
                                 d.vocabulary, d.questions, now + 1, io)
          /\ IF io
             THEN /\ available_passages' = Append(available_passages,
                          d @@ [created_at |-> now + 2])
                  /\ EndRun(d, points + 10, passages_completed + 1,
                            save_user_progress_to_csv(progress_csv, points + 10,
                                passages_completed + 1, vocab_learned, io), io)
                  /\ message' = "generated"
                  /\ now' = now + 2
             ELSE /\ EndRun(shown, points, passages_completed, progress_csv, io)
                  /\ message' = "passage_not_saved"
                  /\ now' = now + 1
                  /\ UNCHANGED available_passages
    /\ UNCHANGED <<script, loaded, mainVars, current_passage_index>>

GenerateNewPassage ==
    /\ available_passages # <<>>
    /\ \E io \in BOOLEAN : Generate(io)

GetFirstPassage ==
    /\ available_passages = <<>>
    /\ \E io \in BOOLEAN : Generate(io)

\* "Submit Answers" (app.py:409-418) and "Submit Quiz" (app.py:428-437)
Submit(award, text) ==
    /\ script = "app"
    /\ shown # None
    /\ points + award <= MaxPoints
    /\ \E io \in BOOLEAN :
          EndRun(shown, points + award, passages_completed,
                 save_user_progress_to_csv(progress_csv, points + award,
                     passages_completed, vocab_learned, io), io)
    /\ message' = text
    /\ UNCHANGED <<script, loaded, mainVars, now, passages_csv, available_passages,
                   current_passage_index>>

SubmitAnswers == Submit(20, "answers")

SubmitQuiz == Submit(15, "quiz")

NextApp ==
    \/ AppNewSession
    \/ SaveProgress
    \/ ClearAllData
    \/ ConfirmClear
    \/ UseExistingPassage
    \/ GenerateNewPassage
    \/ GetFirstPassage
    \/ SubmitAnswers
    \/ SubmitQuiz

SpecApp == InitApp /\ [][NextApp]_vars

----------------------------------------------------------------------------
\* The program is the pool functions called directly, main.py, or app.py.

InitAll == Init \/ InitMain \/ InitApp

NextAll == Next \/ NextMain \/ NextApp

SpecAll == InitAll /\ [][NextAll]_vars

----------------------------------------------------------------------------
\* The store functions called directly, one store in a behaviour: values are
\* saved, a save may be cut short, and the store is loaded back.

\* Saves a store is followed through.
MaxSaved == 2

\* Words, definitions and questions: plain text, and text that holds one of
\* the characters the CSV flattening separates with (app.py:69, 72, 138).
Texts == {<<"a">>} \cup {<<"a", c, "b">> : c \in {" ", ",", ":", ";"}}

\* Learning units handed to save_passage_to_csv: no vocabulary and no
\* questions, one word, or one question.
CodecUnits ==
    {[passage |-> "p", vocabulary |-> <<>>, questions |-> <<>>]}
    \cup {[passage |-> "p", vocabulary |-> << <<w, d>> >>, questions |-> <<>>] :
              w \in Texts, d \in Texts}
    \cup {[passage |-> "p", vocabulary |-> <<>>, questions |-> <<q>>] :
              q \in Texts}

\* Progress handed to the progress saves.
CodecProgress ==
    {[points |-> p, passages_completed |-> c, vocab_learned |-> v] :
        p \in {0, 15}, c \in {0, 1},
        v \in {<<>>} \cup {<<w>> : w \in Texts}
                     \cup {<<w, <<"c">>>> : w \in Texts}}

\* What a load found on disk.
file_state(exists, unparseable) ==
    IF ~exists THEN "absent" ELSE IF unparseable THEN "corrupt" ELSE "ok"

Returned(call, state, value) ==
    [call |-> call, file |-> state, outcome |-> "returned", value |-> value]

Propagated(call, state, exception) ==
    [call |-> call, file |-> state, outcome |-> "raised", value |-> exception]

\* The last row of the progress CSV was cut short.
cut_short(file) ==
    /\ file.exists
    /\ file.rows # <<>>
    /\ "passages_completed" \notin DOMAIN file.rows[Len(file.rows)]

InitCodec ==
    /\ script = "codec"
    /\ passages_file = NoFile
    /\ torn = FALSE
    /\ now = 0
    /\ served = <<>>
    /\ FreshSession

\* save_passage_to_csv (app.py:65-97); available_passages keeps what was
\* handed to the saves that returned True.
CodecSavePassage ==
    /\ script = "codec"
    /\ ~passages_file.exists /\ ~progress_file.exists /\ ~progress_csv.exists
    /\ Len(passages_csv.rows) < MaxSaved
    /\ \E u \in CodecUnits, io \in BOOLEAN :
          /\ passages_csv' = save_passage_to_csv(passages_csv, u.passage,
                                 u.vocabulary, u.questions, now + 1, io)
          /\ available_passages' =
                 IF io
                 THEN Append(available_passages, u @@ [created_at |-> now + 1])
                 ELSE available_passages
          /\ now' = IF io THEN now + 1 ELSE now
    /\ loaded' = None
    /\ UNCHANGED <<script, mainVars, points, passages_completed, vocab_learned,
                   shown, message, progress_csv, current_passage_index>>

\* load_passages_from_csv (app.py:29-63)
CodecLoadPassages ==
    /\ script = "codec"
    /\ loaded' = Returned("load_passages_from_csv",
                          file_state(passages_csv.exists, FALSE),
                          load_passages_from_csv(passages_csv))
    /\ UNCHANGED <<script, mainVars, now, points, passages_completed,
                   vocab_learned, shown, message, appVars>>

\* save_user_progress_to_csv (app.py:134-163); points, passages_completed and
\* vocab_learned keep what was handed to the last save that returned True.
CodecSaveProgress ==
    /\ script = "codec"
    /\ ~passages_file.exists /\ ~progress_file.exists /\ ~passages_csv.exists
    /\ Len(progress_csv.rows) < MaxSaved
    /\ \E p \in CodecProgress, io \in BOOLEAN :
          /\ progress_csv' = save_user_progress_to_csv(progress_csv, p.points,
                                 p.passages_completed, p.vocab_learned, io)
          /\ points' = IF io THEN p.points ELSE points
          /\ passages_completed' =
                 IF io THEN p.passages_completed ELSE passages_completed
          /\ vocab_learned' = IF io THEN p.vocab_learned ELSE vocab_learned
    /\ loaded' = None
    /\ UNCHANGED <<script, mainVars, now, shown, message, passages_csv,
                   available_passages, current_passage_index>>

\* save_user_progress_to_csv stopped inside writer.writerow (app.py:158):
\* the row ends after its first field.
CodecCutProgressSave ==
    /\ script = "codec"
    /\ ~passages_file.exists /\ ~progress_file.exists /\ ~passages_csv.exists
    /\ Len(progress_csv.rows) < MaxSaved
    /\ \E p \in CodecProgress :
          progress_csv' = [exists |-> TRUE,
                           rows |-> Append(progress_csv.rows,
                                           [points |-> p.points])]
    /\ loaded' = None
    /\ UNCHANGED <<script, mainVars, now, points, passages_completed,
                   vocab_learned, shown, message, passages_csv,
                   available_passages, current_passage_index>>

\* load_user_progress_from_csv (app.py:99-132)
CodecLoadProgress ==
    /\ script = "codec"
    /\ loaded' = Returned("load_user_progress_from_csv",
                          file_state(progress_csv.exists,
                                     cut_short(progress_csv)),
                          load_user_progress_from_csv(progress_csv))
    /\ UNCHANGED <<script, mainVars, now, points, passages_completed,
                   vocab_learned, shown, message, appVars>>

\* add_or_replace_passage with its save_passages_data (main.py:102-119)
CodecAddPassage ==
    /\ script = "codec"
    /\ ~progress_file.exists /\ ~passages_csv.exists /\ ~progress_csv.exists
    /\ ~torn
    /\ now < MaxSaved
    /\ \E d \in Drafts :
          passages_file' =
              add_or_replace_passage(passages_file, Complete(d), now + 1).file
    /\ now' = now + 1
    /\ loaded' = None
    /\ UNCHANGED <<script, torn, served, sessionVars, fg, bg, appVars>>

\* save_passages_data stopped between open(PASSAGES_FILE, 'w') and the end
\* of json.dump (main.py:83-84).
CodecCutPassagesSave ==
    /\ script = "codec"
    /\ ~progress_file.exists /\ ~passages_csv.exists /\ ~progress_csv.exists
    /\ ~torn
    /\ passages_file' = Truncated
    /\ torn' = TRUE
    /\ loaded' = None
    /\ UNCHANGED <<script, now, served, sessionVars, fg, bg, appVars>>

\* load_passages_data (main.py:66-72): json.load raises on a file it cannot
\* parse, and nothing in the function catches it.
CodecLoadPassagesData ==
    /\ script = "codec"
    /\ loaded' = IF passages_file.exists /\ torn
                 THEN Propagated("load_passages_data", "corrupt",
                                 "JSONDecodeError")
                 ELSE Returned("load_passages_data",
                               file_state(passages_file.exists, FALSE),
                               load_passages_data(passages_file))
    /\ UNCHANGED <<script, poolVars, sessionVars, fg, bg, appVars>>

\* save_user_progress (main.py:194-198)
CodecSaveUserProgress ==
    /\ script = "codec"
    /\ ~passages_file.exists /\ ~passages_csv.exists /\ ~progress_csv.exists
    /\ ~progress_file.exists
    /\ \E p \in CodecProgress :
          /\ progress_file' = save_user_progress(p)
          /\ points' = p.points
          /\ passages_completed' = p.passages_completed
          /\ vocab_learned' = p.vocab_learned
    /\ loaded' = None
    /\ UNCHANGED <<script, poolVars, generating_in_background, shown, message,
                   fg, bg, appVars>>

\* load_user_progress (main.py:181-192)
CodecLoadUserProgress ==
    /\ script = "codec"
    /\ loaded' = Returned("load_user_progress",
                          file_state(progress_file.exists, FALSE),
                          load_user_progress(progress_file))
    /\ UNCHANGED <<script, poolVars, sessionVars, fg, bg, appVars>>

NextCodec ==
    \/ CodecSavePassage
    \/ CodecLoadPassages
    \/ CodecSaveProgress
    \/ CodecCutProgressSave
    \/ CodecLoadProgress
    \/ CodecAddPassage
    \/ CodecCutPassagesSave
    \/ CodecLoadPassagesData
    \/ CodecSaveUserProgress
    \/ CodecLoadUserProgress

SpecCodec == InitCodec /\ [][NextCodec]_vars

----------------------------------------------------------------------------
\* Properties of the pool operations

Pool == passages_file.passages

Cursor == passages_file.current_index

\* The indexes that n successive get_next_passage calls return, starting
\* from the stored pool `file`.
RECURSIVE Rotation(_, _)
Rotation(file, n) ==
    IF n = 0
    THEN <<>>
    ELSE LET r == get_next_passage(file)
         IN  <<r.index>> \o Rotation(r.file, n - 1)

\* C1: with no insertion in between, successive get_next_passage calls on a
\* pool of k >= 1 units starting at cursor c return the units at positions
\* c, c+1, ..., (c+k-1) mod k, each unit once, the (k+1)-th call returns the
\* first unit again, and every call stores the returned index plus one mod k.
C1_RoundRobinOrder ==
    LET k == Len(Pool)
        n == Len(served)
    IN  (k >= 1 /\ n >= 1) =>
            /\ \A i \in 1..n :
                  /\ served[i].index = (served[1].index + i - 1) % k
                  /\ served[i].passage = Pool[served[i].index + 1]
            /\ \A i, j \in 1..n :
                  (i < j /\ j <= k) => served[i].passage # served[j].passage
            /\ (n = k + 1) => served[n] = served[1]
            /\ Cursor = (served[n].index + 1) % k

C1_Witness ==
    /\ Len(Pool) = MAX_PASSAGES
    /\ Len(served) = MAX_PASSAGES + 1
    /\ served[1].index = 2

\* C2: an insertion into a full pool overwrites exactly the slot at index
\* (cursor + len - 1) mod len, and in the rotation that continues from the
\* cursor that slot is served last, after every other unit.
C2_ReplacesLastServedSlot ==
    [][ (now' # now /\ Len(Pool) = MAX_PASSAGES) =>
            LET k == Len(Pool)
                slot == (Cursor + k - 1) % k
                order == Rotation(passages_file', k)
            IN  /\ Len(Pool') = k
                /\ Pool'[slot + 1].created_at = now'
                /\ \A i \in 1..k : (i # slot + 1) => Pool'[i] = Pool[i]
                /\ order[k] = slot
                /\ \A i \in 1..(k - 1) : order[i] # slot ]_vars

C2_Witness ==
    /\ Len(Pool) = MAX_PASSAGES
    /\ Cursor = 3
    /\ served = <<>>
    /\ Pool[3].created_at = now
    /\ now > MAX_PASSAGES

\* C3: an insertion into a pool of fewer than MAX_PASSAGES units (the empty
\* pool included) appends the unit at the end with id = previous length + 1,
\* so the filling phase yields ids 1..MAX_PASSAGES in insertion order.
C3_AppendWhileFilling ==
    [][ (now' # now /\ Len(Pool) < MAX_PASSAGES) =>
            /\ Len(Pool') = Len(Pool) + 1
            /\ SubSeq(Pool', 1, Len(Pool)) = Pool
            /\ Pool'[Len(Pool')].created_at = now'
            /\ Pool'[Len(Pool')].id = Len(Pool) + 1
            /\ \A i \in 1..Len(Pool') : Pool'[i].id = i ]_vars

C3_Witness ==
    /\ now = MAX_PASSAGES
    /\ Len(Pool) = MAX_PASSAGES
    /\ \A i \in 1..MAX_PASSAGES : Pool[i].id = i /\ Pool[i].created_at = i

\* C4: a unit that replaces a slot of a full pool gets the id of the unit it
\* replaced plus MAX_PASSAGES, at every cursor position.
C4_IdIsReplacedIdPlusCapacity ==
    [][ (now' # now /\ Len(Pool) = MAX_PASSAGES) =>
            \A i \in 1..MAX_PASSAGES :
                (Pool'[i] # Pool[i]) => Pool'[i].id = Pool[i].id + MAX_PASSAGES
      ]_vars

\* C5: no two units of the stored pool have the same id.
C5_UniqueIds ==
    \A i, j \in 1..Len(Pool) : (i # j) => Pool[i].id # Pool[j].id

\* C6: the stored pool never holds more than MAX_PASSAGES units; an
\* insertion into a full pool leaves its length unchanged.
C6_PoolBounded == Len(Pool) <= MAX_PASSAGES

C6_Witness ==
    /\ Len(Pool) = MAX_PASSAGES
    /\ now > MAX_PASSAGES
    /\ served = <<>>

\* C8: add_or_replace_passage keeps the cursor, in the append and in the
\* replace branch, and changes at most one slot: every other unit keeps its
\* position, content and id.
C8_InsertionFrame ==
    [][ (now' # now) =>
            /\ Cursor' = Cursor
            /\ Len(Pool') \in {Len(Pool), Len(Pool) + 1}
            /\ Cardinality({i \in 1..Len(Pool) : Pool'[i] # Pool[i]}) <= 1
            /\ (Len(Pool') = Len(Pool) + 1) =>
                    \A i \in 1..Len(Pool) : Pool'[i] = Pool[i] ]_vars

C8_Witness ==
    /\ now > MAX_PASSAGES
    /\ Len(Pool) = MAX_PASSAGES
    /\ Cursor = 2
    /\ served = <<>>

----------------------------------------------------------------------------
\* Properties of main.py's passage request

\* C9: a passage request on an empty pool yields no unit and changes
\* nothing: the passages file is not written, no points are awarded,
\* passages_completed keeps its value, the progress file is not written and
\* no background generation is started.
C9_EmptyRequestChangesNothing ==
    [][ (script = "main" /\ message # "no_passages" /\ message' = "no_passages") =>
            /\ get_next_passage(passages_file).passage = None
            /\ UNCHANGED <<passages_file, progress_file, points,
                           passages_completed, vocab_learned, shown,
                           generating_in_background, bg, fg>> ]_vars

C9_Witness ==
    /\ script = "main"
    /\ message = "no_passages"
    /\ ~passages_file.exists
    /\ fg.pc = "idle"

\* C10: once a passage request has been answered "no passages available", a
\* generation has been triggered: one is in flight or the pool is no longer
\* empty.
C10_EmptyRequestTriggersGeneration ==
    (script = "main" /\ message = "no_passages") =>
        \/ generating_in_background
        \/ \E t \in Threads : bg[t].pc # "none"
        \/ Pool # <<>>

----------------------------------------------------------------------------
\* Properties of the rotation cursors

Max(a, b) == IF a >= b THEN a ELSE b

\* C7: the rotation cursor is always a valid index, 0 <= cursor <
\* max(1, len(units)): the stored current_index of main.py and the session's
\* current_passage_index of app.py, whose "No more existing passages
\* available" branch is never taken.
C7_CursorValid ==
    /\ 0 <= Cursor
    /\ Cursor < Max(1, Len(Pool))
    /\ 0 <= current_passage_index
    /\ current_passage_index < Max(1, Len(available_passages))
    /\ message # "no_more"

C7_Witness ==
    /\ script = "app"
    /\ Len(available_passages) = 2
    /\ current_passage_index = 0
    /\ message = "loaded"

----------------------------------------------------------------------------
\* Properties of the stores

ZeroProgress == [points |-> 0, passages_completed |-> 0, vocab_learned |-> <<>>]

\* C11: loading the passages CSV after saves returns, for every saved unit,
\* the passage text, the vocabulary mapping and the ordered question list
\* that were saved, also when a word or definition holds a comma or a colon
\* or a question holds a semicolon.
C11_PassageRoundTrip ==
    (script = "codec" /\ loaded # None
        /\ loaded.call = "load_passages_from_csv") =>
        /\ Len(loaded.value) = Len(available_passages)
        /\ \A i \in 1..Len(available_passages) :
              /\ loaded.value[i].passage = available_passages[i].passage
              /\ loaded.value[i].vocabulary = available_passages[i].vocabulary
              /\ loaded.value[i].questions = available_passages[i].questions

\* C12: after one or more successful save_user_progress_to_csv calls,
\* load_user_progress_from_csv returns exactly the points, the
\* passages_completed and the vocab_learned list of the most recent save.
C12_ProgressRoundTrip ==
    (script = "codec" /\ loaded # None
        /\ loaded.call = "load_user_progress_from_csv"
        /\ loaded.file = "ok"
        /\ progress_csv.rows # <<>>) =>
        loaded.value = [points |-> points,
                        passages_completed |-> passages_completed,
                        vocab_learned |-> vocab_learned]

\* C13: a load whose backing file does not exist raises nothing and returns
\* the defaults: an empty pool with cursor 0, no passages, or progress with
\* points 0, passages_completed 0 and an empty vocab_learned.
C13_AbsentStoreDefaults ==
    (script = "codec" /\ loaded # None /\ loaded.file = "absent") =>
        /\ loaded.outcome = "returned"
        /\ (loaded.call = "load_passages_data") =>
               loaded.value = [passages |-> <<>>, current_index |-> 0]
        /\ (loaded.call = "load_passages_from_csv") => loaded.value = <<>>
        /\ (loaded.call \in {"load_user_progress_from_csv",
                             "load_user_progress"}) =>
               loaded.value = ZeroProgress

C13_Witness ==
    /\ script = "codec"
    /\ loaded # None
    /\ loaded.call = "load_passages_data"
    /\ loaded.file = "absent"
    /\ ~passages_file.exists
    /\ progress_csv.exists

\* C14: a load whose backing file exists but cannot be parsed raises an
\* error to its caller; it never returns a value, so never the defaults of
\* the absent-file case.
C14_CorruptStoreRaises ==
    (script = "codec" /\ loaded # None /\ loaded.file = "corrupt") =>
        loaded.outcome = "raised"

----------------------------------------------------------------------------
\* Properties of main.py's foreground and background

\* C15: no load of the passages file runs while a save has the file open and
\* unwritten: no script run ends on a load error, and no background
\* insertion drops its completed unit on one.
C15_LoadSeesWholeFile ==
    (script = "main") =>
        /\ message # "load_error"
        /\ \A t \in Threads :
              ~(/\ bg[t].pc = "returned"
                /\ bg[t].unit # None
                /\ bg[t].unit.status = "complete")

\* C16: at most one background generation thread exists at any time.
C16_OneGenerationInFlight ==
    Cardinality({t \in Threads : bg[t].pc # "none"}) <= 1

\* C17: the foreground get_next_passage and a background
\* add_or_replace_passage are never both between their load of the passages
\* file and the end of their save.
C17_PoolCriticalSection ==
    ~(/\ fg.pc \in {"loaded", "opened"}
      /\ \E t \in Threads : bg[t].pc \in {"loaded", "opened"})

\* C18: every unit in the stored pool, every unit a thread is about to
\* store and the unit the session shows has status "complete", also after a
\* generation stopped part-way with a unit in status generating_questions or
\* generating_quiz.
C18_OnlyCompleteUnits ==
    (script = "main") =>
        /\ \A i \in 1..Len(Pool) : Pool[i].status = "complete"
        /\ \A i \in 1..Len(fg.snap.passages) :
              fg.snap.passages[i].status = "complete"
        /\ (shown # None) => shown.status = "complete"
        /\ \A t \in Threads :
              (bg[t].pc \in {"generated", "loaded", "opened"}) =>
                  bg[t].unit.status = "complete"

C18_Witness ==
    /\ script = "main"
    /\ \E t \in Threads :
          /\ bg[t].pc = "returned"
          /\ bg[t].unit # None
          /\ bg[t].unit.status = "generating_quiz"
    /\ shown # None
    /\ Len(Pool) = 2
    /\ \A i \in 1..Len(Pool) : Pool[i].status = "complete"

----------------------------------------------------------------------------
\* Properties of the learned vocabulary (app.py)

\* C19: the word bonus is awarded once per distinct word: the points are the
\* 10 per completed passage, 20 per submitted answer set and 15 per
\* submitted quiz, plus 5 times the number of distinct words in
\* vocab_learned.
C19_WordBonusOncePerWord ==
    (script = "app") =>
        \E a \in 0..(MaxPoints \div 20), b \in 0..(MaxPoints \div 15) :
            points = 10 * passages_completed
                        + 5 * Cardinality(Range(vocab_learned))
                        + 20 * a + 15 * b

\* C20: vocab_learned never holds the same word twice, also in a session
\* that loaded it from the progress file.
C20_NoDuplicateWords ==
    (script = "app") =>
        \A i, j \in 1..Len(vocab_learned) :
            (i # j) => vocab_learned[i] # vocab_learned[j]

----------------------------------------------------------------------------
\* Properties of the progress record

\* C21: points never decreases in main.py, which has no data wipe: not
\* within a session and not when a later session loads the saved progress.
C21_PointsNeverDecrease ==
    [][ (script = "main") => points' >= points ]_vars

\* C23: whenever a script run of main.py that awarded points has ended, the
\* points in the progress file equal the points of the session.
C23_AwardIsSaved ==
    (script = "main" /\ fg.pc = "idle") =>
        load_user_progress(progress_file).points = points

\* A step in which a passage request hands a unit to the learner: the end of
\* main.py's handler, or app.py's "Use Existing Passage" and generation
\* handlers reporting success.
Yields ==
    \/ script = "main" /\ fg.pc = "saved" /\ fg'.pc = "idle"
    \/ script = "app" /\ message' \in {"loaded", "generated"}

\* A step in which a new session initialises its state from the store.
SessionStart == shown' = None /\ message' \in {"none", "load_error"}

C24_ConfirmedWipeClears ==
    [][ (script = "app" /\ message = "confirm_clear" /\ message' = "nothing") =>
            /\ points' = 0
            /\ passages_completed' = 0
            /\ vocab_learned' = <<>>
            /\ available_passages' = <<>>
            /\ current_passage_index' = 0
            /\ ~passages_csv'.exists
            /\ ~progress_csv'.exists ]_vars

----------------------------------------------------------------------------
\* Properties of main.py's pool under generation failures and overlap

\* C25: every run of the generation calls for the pool ends with a complete
\* unit to insert: the generated one, or a fallback when a call failed.
C25_FailedGenerationFallsBack ==
    [][ \A t \in Threads :
            (script = "main" /\ bg[t].pc = "started" /\ bg'[t].pc # "started") =>
                /\ bg'[t].pc = "generated"
                /\ bg'[t].unit.status = "complete" ]_vars

----------------------------------------------------------------------------
\* Properties of app.py's handlers under a failed save

\* C26: a generation handler of app.py whose save_passage_to_csv failed (the
\* passages file is as before) reports the failure and awards no points,
\* leaves passages_completed, available_passages, the cursor and the shown
\* unit as they were.
C26_FailedSaveAwardsNothing ==
    [][ (script = "app" /\ now' # now /\ passages_csv' = passages_csv) =>
            /\ message' = "passage_not_saved"
            /\ points' = points
            /\ passages_completed' = passages_completed
            /\ vocab_learned' = vocab_learned
            /\ available_passages' = available_passages
            /\ current_passage_index' = current_passage_index
            /\ shown' = shown ]_vars

C26_Witness ==
    /\ script = "app"
    /\ message = "passage_not_saved"
    /\ points > 0
    /\ shown # None
    /\ Len(available_passages) = 1
    /\ Len(passages_csv.rows) = 1

\* C27: an insertion into a full pool overwrites the unit that has been in
\* the pool longest: the slot it changes held the earliest created_at of the
\* pool it loaded.
C27_FifoReplacement ==
    [][ \A t \in Threads :
            (/\ script = "main"
             /\ bg[t].pc = "opened" /\ bg'[t].pc = "returned"
             /\ Len(bg[t].snap.passages) = MAX_PASSAGES) =>
                LET before == bg[t].snap.passages
                IN  \A i \in 1..MAX_PASSAGES :
                        (Pool'[i] # before[i]) =>
                            \A j \in 1..MAX_PASSAGES :
                                before[i].created_at <= before[j].created_at
      ]_vars

\* C28: no update of the pool is lost when foreground and background
\* overlap: an operation that starts its save on a whole file writes what it
\* would write had it loaded the pool at that moment, so the stored pool
\* keeps the cursor advance and the inserted unit of the operations saved
\* since its load.
C28_NoLostUpdate ==
    [][ (script = "main" /\ ~torn) =>
            /\ (fg.pc = "loaded" /\ fg'.pc = "opened") =>
                   get_next_passage(fg.snap).file
                       = get_next_passage(passages_file).file
            /\ \A t \in Threads :
                   (bg[t].pc = "loaded" /\ bg'[t].pc = "opened") =>
                       add_or_replace_passage(bg[t].snap, bg[t].unit,
                                              bg[t].t).file
                           = add_or_replace_passage(passages_file, bg[t].unit,
                                                    bg[t].t).file ]_vars

\* C29: no unit is dropped unserved: every unit that was stamped for
\* insertion is waiting to be saved, is in the stored pool, or has been
\* returned by get_next_passage.
C29_NoUnitDroppedUnserved ==
    (script = "main" /\ ~torn) =>
        \A k \in 1..now :
            \/ \E i \in 1..Len(Pool) : Pool[i].created_at = k
            \/ \E i \in 1..Len(served) : served[i].passage.created_at = k
            \/ \E t \in Threads :
                  bg[t].pc \in {"loaded", "opened"} /\ bg[t].t = k

\* C30: whenever generating_in_background is True it eventually becomes
\* False again, whether the generation succeeded or failed.
C30_FlagEventuallyCleared ==
    (script = "main" /\ generating_in_background)
        ~> ~generating_in_background

====
